---- MODULE Spec2Model ----
(***************************************************************************)
(* Session registry and focus coordination of the terminal package         *)
(* (src/src/terminal.js, class Terminal).                                   *)
(*                                                                         *)
(* terminal.js imports TerminalModel (./model) and TerminalElement          *)
(* (./element); the operators that stand for their methods follow the      *)
(* specification document (sections 3, 4.1, 4.2, 5) and say so.            *)
(*                                                                         *)
(* The event loop is single threaded: every action below is one event-loop *)
(* turn (a command, a workspace callback, a process notification) together *)
(* with the promise continuations (microtasks) the turn makes runnable.    *)
(***************************************************************************)
EXTENDS Naturals, Sequences, FiniteSets, TLC

(* ------------------------------ bounds ------------------------------- *)
MaxSessions == 2  \* Sessions ever created in one run
MaxCalls == 2     \* runCommands calls in one run
MaxCmds == 2      \* length of a command list
MaxRestarts == 1  \* restarts of one Session

(* ----------------------------- constants ----------------------------- *)
None == "none"       \* undefined / null / no item
Absent == "absent"   \* a key that is not in an options object
Editor == "editor"   \* a workspace item that is not a TerminalModel

\* const TERMINAL_BASE_URI = 'terminal://' ; a string is a sequence of tokens
TERMINAL_BASE_URI == <<"terminal:", "/", "/">>

\* Containers in the priority order of spec 4.1: center workspace, left
\* dock, right dock, bottom dock.
Containers == <<"center", "left", "right", "bottom">>
ContainerSet == {Containers[i] : i \in 1..Len(Containers)}
Docks == {"left", "right", "bottom"}

\* command lists: the prefixes of a list of distinct commands
CommandText(i) == "cmd" \o ToString(i)
CommandLists == {[i \in 1..n |-> CommandText(i)] : n \in 0..MaxCmds}

Positions == {"Center", "Split Up", "Split Down", "Split Left", "Split Right",
              "Bottom Dock", "Left Dock", "Right Dock", "Other"}

\* Addresses that reach the package from outside: serialized by an earlier
\* run, or handed to atom.workspace.open by another package.
ExternalUris == {TERMINAL_BASE_URI \o <<"x1", "/">>,
                 <<"file:", "/", "/", "x1">>,
                 <<"terminal:", "/">>}

\* Strings handed to the opener, around the scheme prefix: the prefix
\* alone, with a token, with token and separator, cut short, in another
\* case, not at the start, another scheme, the empty string.
ProbeUris == {TERMINAL_BASE_URI,
              TERMINAL_BASE_URI \o <<"x1">>,
              TERMINAL_BASE_URI \o <<"x1", "/">>,
              <<"terminal:", "/">>,
              <<"Terminal:", "/", "/", "x1", "/">>,
              <<"x", "terminal:", "/", "/", "x1", "/">>,
              <<"file:", "/", "/", "x1">>,
              <<>>}

TermId(n) == "t" \o ToString(n)

VARIABLES
  terminalsSet,  \* this.terminalsSet: the Set's entries in insertion order
  terminals,     \* every TerminalModel ever constructed, by identity
  items,         \* workspace: the items each container displays
  activeItem,    \* workspace: each container's active pane item
  visible,       \* workspace: whether each dock is visible
  focus,         \* who holds input focus: a Session, "workspace" or None
  clipboard,     \* atom.clipboard
  opening,       \* atom.workspace.open calls not yet resolved
  calls,         \* runCommands invocations
  nextUuid,      \* number of uuidv4() values drawn
  disposed,      \* this.disposables.dispose() has run
  lastOp         \* history: the last operation, its inputs and its result

vars == <<terminalsSet, terminals, items, activeItem, visible, focus,
          clipboard, opening, calls, nextUuid, disposed, lastOp>>

(* ----------------------------- helpers ------------------------------- *)
Range(s) == {s[i] : i \in 1..Len(s)}

RECURSIVE SeqRemove(_, _)
SeqRemove(s, x) ==
  IF s = <<>> THEN <<>>
  ELSE IF Head(s) = x THEN SeqRemove(Tail(s), x)
  ELSE <<Head(s)>> \o SeqRemove(Tail(s), x)

\* String.prototype.startsWith
StartsWith(s, p) == Len(s) >= Len(p) /\ SubSeq(s, 1, Len(p)) = p

\* Set.prototype.add: appends unless present
SetAdd(set, x) == IF x \in Range(set) THEN set ELSE Append(set, x)

IsVisible(vis, c) == c = "center" \/ vis[c]

\* The world the callbacks read and write, as one value, so that a handler
\* that calls several of them is the composition of their effects.
World == [ts |-> terminals, set |-> terminalsSet, items |-> items,
          act |-> activeItem, vis |-> visible, focus |-> focus,
          calls |-> calls]

(* ------------- TerminalModel / TerminalElement (./model) ------------- *)
\* TerminalModel.isTerminalModel(item)
IsTerminalModel(w, item) == item \in DOMAIN w.ts

Registered(w) == Range(w.set)

\* new TerminalModel({uri, terminalsSet}): a Session bound to the address,
\* process Starting, inserted in the registry on creation.
FreshTerminal(uri) ==
  [uri |-> uri, processState |-> "Starting", pane |-> None, active |-> FALSE,
   initialized |-> FALSE, waiters |-> <<>>, input |-> <<>>, pasted |-> None,
   restarts |-> 0]

NextId(w) == TermId(Cardinality(DOMAIN w.ts) + 1)

\* The container that decides: the first of `order` that is visible and
\* has an active item; its active item, None when there is none.
Winner(w, order) ==
  LET ranked == {i \in 1..Len(order) :
                   IsVisible(w.vis, order[i]) /\ w.act[order[i]] # None}
  IN IF ranked = {} THEN None
     ELSE w.act[order[CHOOSE i \in ranked : \A j \in ranked : i <= j]]

\* recomputeActive with the winner marked and the others not cleared
RecalculateActiveNoClear(w) ==
  [w EXCEPT !.ts = [s \in DOMAIN w.ts |->
     [w.ts[s] EXCEPT !.active =
        w.ts[s].active \/ (s = Winner(w, Containers) /\ s \in Registered(w))]]]

\* recomputeActive that drops the flags when a Session is already active
RecalculateActiveSticky(w) ==
  LET cur == {s \in Registered(w) : w.ts[s].active}
  IN [w EXCEPT !.ts = [s \in DOMAIN w.ts |->
        [w.ts[s] EXCEPT !.active =
           IF cur = {} THEN s = Winner(w, Containers) /\ s \in Registered(w)
           ELSE FALSE]]]

\* TerminalModel.recalculateActive(terminalsSet): spec 4.1 recomputeActive.
\* The highest-priority container that is visible and has an active item
\* decides: its item is active if it is a registered Session; every other
\* Session is inactive.
RecalculateActive(w) ==
  [w EXCEPT !.ts = [s \in DOMAIN w.ts |->
     [w.ts[s] EXCEPT !.active =
        s = Winner(w, Containers) /\ s \in Registered(w)]]]

\* terminal.isActiveTerminal()
IsActiveTerminal(w, s) == w.ts[s].active

\* item.setNewPane(pane)
SetNewPane(w, s, pane) == [w EXCEPT !.ts[s].pane = pane]

\* item.focusOnTerminal(): routes input focus to the Session
FocusOnTerminal(w, s) == [w EXCEPT !.focus = s]

\* register(session), spec 4.1: insertion, then recomputation
Register(w, id, uri) ==
  RecalculateActive([w EXCEPT !.ts = w.ts @@ (id :> FreshTerminal(uri)),
                              !.set = SetAdd(w.set, id)])

\* unregister(session), spec 4.1: the Session, Exited, leaves the registry
\* and the active Session is recomputed on the containers as they are
Unregister(w, s) ==
  RecalculateActive([w EXCEPT !.ts[s].processState = "Exited",
                              !.set = SeqRemove(w.set, s)])

\* terminal.exit() and the process's exit notification: the Session is
\* unregistered; then its item leaves its container, whose active item and
\* the input focus it held are cleared, and on that container signal the
\* active Session is recomputed again.
ExitTerminal(w, s) ==
  LET w1 == Unregister(w, s)
  IN RecalculateActive(
       [w1 EXCEPT !.items = [c \in ContainerSet |-> w1.items[c] \ {s}],
                  !.act = [c \in ContainerSet |->
                             IF w1.act[c] = s THEN None ELSE w1.act[c]],
                  !.focus = IF w1.focus = s THEN None ELSE w1.focus])

\* terminal.restartPtyProcess()
RestartPtyProcess(w, s) == [w EXCEPT !.ts[s].restarts = @ + 1]

\* terminal.copyFromTerminal(): the Session's selection
CopyFromTerminal(w, s) == "sel-" \o s

\* terminal.pasteToTerminal(text)
PasteToTerminal(w, s, text) == [w EXCEPT !.ts[s].pasted = text]

\* terminal.runCommand(command): one entry of the Session's input, tagged
\* with the call that submitted it and the process state it met.
RunCommand(w, s, k, command) ==
  [w EXCEPT !.ts[s].input =
     Append(@, [call |-> k, cmd |-> command, st |-> w.ts[s].processState])]

(* ------------------------ class Terminal ----------------------------- *)
EmptyOptions == [pane |-> Absent, split |-> Absent]

\* getActiveTerminal, with a variant that falls back to the first Session
GetActiveTerminalOrFirst(w) ==
  LET idx == {i \in 1..Len(w.set) : IsActiveTerminal(w, w.set[i])}
  IN IF idx # {} THEN w.set[CHOOSE i \in idx : \A j \in idx : i <= j]
     ELSE IF w.set # <<>> THEN w.set[1] ELSE None

\* getActiveTerminal (): [...this.terminalsSet].find(t => t.isActiveTerminal())
GetActiveTerminal(w) ==
  LET idx == {i \in 1..Len(w.set) : IsActiveTerminal(w, w.set[i])}
  IN IF idx = {} THEN None
     ELSE w.set[CHOOSE i \in idx : \A j \in idx : i <= j]

\* generateNewUri (): TERMINAL_BASE_URI + uuidv4() + '/' ; n-th uuid drawn
GenerateNewUri(n) == TERMINAL_BASE_URI \o <<"u" \o ToString(n)>> \o <<"/">>

\* addDefaultPosition with a variant whose defaults overwrite the caller's
\* keys
AddDefaultPositionOverwriting(position, options, panes) ==
  LET withPane(c) == IF c \in panes
                     THEN [options EXCEPT !.pane = c] ELSE options
      withSplit(d) == [options EXCEPT !.split = d]
  IN CASE position = "Center" -> withPane("center")
       [] position = "Split Up" -> withSplit("up")
       [] position = "Split Down" -> withSplit("down")
       [] position = "Split Left" -> withSplit("left")
       [] position = "Split Right" -> withSplit("right")
       [] position = "Bottom Dock" -> withPane("bottom")
       [] position = "Left Dock" -> withPane("left")
       [] position = "Right Dock" -> withPane("right")
       [] OTHER -> options

\* addDefaultPosition (options = {}); panes: the containers whose
\* getActivePane() returns a pane (a pane is named after its container)
AddDefaultPosition(position, options, panes) ==
  LET withPane(c) == IF c \in panes /\ options.pane = Absent
                     THEN [options EXCEPT !.pane = c] ELSE options
      withSplit(d) == IF options.split = Absent
                      THEN [options EXCEPT !.split = d] ELSE options
  IN CASE position = "Center" -> withPane("center")
       [] position = "Split Up" -> withSplit("up")
       [] position = "Split Down" -> withSplit("down")
       [] position = "Split Left" -> withSplit("left")
       [] position = "Split Right" -> withSplit("right")
       [] position = "Bottom Dock" -> withPane("bottom")
       [] position = "Left Dock" -> withPane("left")
       [] position = "Right Dock" -> withPane("right")
       [] OTHER -> options

\* the opener with a variant that tests for the scheme anywhere in the uri
OpenerAnywhere(w, uri) ==
  IF \E i \in 0..Len(uri) : StartsWith(SubSeq(uri, i + 1, Len(uri)),
                                        TERMINAL_BASE_URI)
  THEN [w |-> Register(w, NextId(w), uri), item |-> NextId(w)]
  ELSE [w |-> w, item |-> None]

\* the opener of atom.workspace.addOpener: a TerminalModel for a uri with
\* the scheme prefix, nothing otherwise.  Yields the world and the item.
Opener(w, uri) ==
  IF StartsWith(uri, TERMINAL_BASE_URI)
  THEN [w |-> Register(w, NextId(w), uri), item |-> NextId(w)]
  ELSE [w |-> w, item |-> None]

\* for (const command of commands) terminal.runCommand(command)
RECURSIVE SubmitCommands(_, _, _, _)
SubmitCommands(w, s, k, commands) ==
  IF commands = <<>> THEN w
  ELSE SubmitCommands(RunCommand(w, s, k, Head(commands)),
                      s, k, Tail(commands))

\* runCommands after `await terminal.element.initializedPromise`
ResumeRunCommands(w, k) ==
  [SubmitCommands(w, w.calls[k].target, k, w.calls[k].cmds)
     EXCEPT !.calls[k].pc = "done"]

\* the await without the wait: the loop runs whatever the promise's state
AwaitInitializedNoWait(w, k, s) ==
  ResumeRunCommands([w EXCEPT !.calls[k].target = s], k)

\* runCommands from the point where its terminal is known:
\* await terminal.element.initializedPromise, then the loop
AwaitInitialized(w, k, s) ==
  LET w1 == [w EXCEPT !.calls[k].target = s]
  IN IF w1.ts[s].initialized THEN ResumeRunCommands(w1, k)
     ELSE [w1 EXCEPT !.calls[k].pc = "awaitInit",
                     !.calls[k].waited = TRUE,
                     !.ts[s].waiters = Append(@, k)]

\* one run of call k's continuation, with a variant that awaits every
\* runCommand: it submits the call's next command and, if more are left,
\* is to be run again after the continuations already waiting
ResumeStepAwaitingEach(w, k) ==
  LET s == w.calls[k].target
      n == Len(SelectSeq(w.ts[s].input, LAMBDA e : e.call = k))
      cmds == w.calls[k].cmds
  IN IF n >= Len(cmds)
     THEN [w |-> [w EXCEPT !.calls[k].pc = "done"], again |-> FALSE]
     ELSE [w |-> [RunCommand(w, s, k, cmds[n + 1])
                    EXCEPT !.calls[k].pc =
                      IF n + 1 = Len(cmds) THEN "done" ELSE @],
           again |-> n + 1 < Len(cmds)]

\* the code's continuation has no await in its loop: one run submits the
\* whole list and ends the call
ResumeStep(w, k) == [w |-> ResumeRunCommands(w, k), again |-> FALSE]

\* the reactions of a resolved initializedPromise, in registration order;
\* a continuation that suspends again goes behind the waiting ones
RECURSIVE ResolveWaiters(_, _)
ResolveWaiters(w, waiters) ==
  IF waiters = <<>> THEN w
  ELSE LET r == ResumeStep(w, Head(waiters))
       IN ResolveWaiters(r.w, Tail(waiters)
                              \o (IF r.again THEN <<Head(waiters)>>
                                  ELSE <<>>))

(* ------------------- workspace callbacks (constructor) --------------- *)
\* atom.workspace.observePanes callback, for a pane without items
ObservePanesCb(w) == RecalculateActive(w)

\* pane.observeItems callback
ObserveItemsCb(w, pane, item) ==
  RecalculateActive(IF IsTerminalModel(w, item)
                    THEN SetNewPane(w, item, pane) ELSE w)

\* atom.workspace.observeActivePaneItem callback, with a variant that
\* does not recompute
ObserveActivePaneItemCbNoRecalc(w, item) ==
  IF IsTerminalModel(w, item) THEN FocusOnTerminal(w, item) ELSE w

ObserveActivePaneItemCb(w, item) ==
  RecalculateActive(IF IsTerminalModel(w, item)
                    THEN FocusOnTerminal(w, item) ELSE w)

\* the calls a dock's observeVisible callback makes, in order, with a
\* variant that leaves out the test of `visible`
ObserveVisibleCallsUnguarded(w, dock, vis) ==
  LET item == w.act[dock]
  IN (IF IsTerminalModel(w, item)
      THEN <<[f |-> "focusOnTerminal", on |-> item]>> ELSE <<>>)
     \o <<[f |-> "recalculateActive", on |-> None]>>

\* if (visible) { const item = dock.getActivePaneItem(); if
\* (TerminalModel.isTerminalModel(item)) item.focusOnTerminal() }
\* TerminalModel.recalculateActive(this.terminalsSet)
ObserveVisibleCalls(w, dock, vis) ==
  LET item == w.act[dock]
  IN (IF vis /\ IsTerminalModel(w, item)
      THEN <<[f |-> "focusOnTerminal", on |-> item]>> ELSE <<>>)
     \o <<[f |-> "recalculateActive", on |-> None]>>

\* the effect of a sequence of such calls
RECURSIVE ApplyCalls(_, _)
ApplyCalls(w, cs) ==
  IF cs = <<>> THEN w
  ELSE ApplyCalls(IF Head(cs).f = "focusOnTerminal"
                  THEN FocusOnTerminal(w, Head(cs).on)
                  ELSE RecalculateActive(w),
                  Tail(cs))

\* get{Right,Left,Bottom}Dock().observeVisible callback, with a variant
\* that does not recompute
ObserveVisibleCbNoRecalc(w, dock, vis) ==
  LET item == w.act[dock]
  IN IF vis /\ IsTerminalModel(w, item) THEN FocusOnTerminal(w, item) ELSE w

ObserveVisibleCb(w, dock, vis) ==
  ApplyCalls(w, ObserveVisibleCalls(w, dock, vis))

(* ------------------------- commands (router) ------------------------- *)
\* close, with a variant that takes the first Session of the registry
CloseOpFirst(w) ==
  IF w.set # <<>> THEN ExitTerminal(w, w.set[1]) ELSE w

\* close ()
CloseOp(w) ==
  LET terminal == GetActiveTerminal(w)
  IN IF terminal # None THEN ExitTerminal(w, terminal) ELSE w

\* restart, with a variant that exits the Session
RestartOpExits(w) ==
  LET terminal == GetActiveTerminal(w)
  IN IF terminal # None THEN ExitTerminal(w, terminal) ELSE w

\* restart ()
RestartOp(w) ==
  LET terminal == GetActiveTerminal(w)
  IN IF terminal # None THEN RestartPtyProcess(w, terminal) ELSE w

\* copy (): the clipboard after it
CopyOp(w, clip) ==
  LET terminal == GetActiveTerminal(w)
  IN IF terminal # None THEN CopyFromTerminal(w, terminal) ELSE clip

\* paste ()
PasteOp(w, clip) ==
  LET terminal == GetActiveTerminal(w)
  IN IF terminal # None THEN PasteToTerminal(w, terminal, clip) ELSE w

\* unfocus (): atom.views.getView(atom.workspace).focus()
UnfocusOp(w) == [w EXCEPT !.focus = "workspace"]

\* exitAllTerminals (): for (const terminal of this.terminalsSet)
\* terminal.exit().  The iterator reads the live Set: pos entries are behind
\* it, and an entry deleted behind it moves it back.  seen records the
\* entries of the Set each time the iterator steps.
RECURSIVE ExitAllLoop(_, _, _)
ExitAllLoop(w, pos, seen) ==
  IF pos >= Len(w.set) THEN [w |-> w, seen |-> Append(seen, w.set)]
  ELSE LET terminal == w.set[pos + 1]
           w1 == ExitTerminal(w, terminal)
           behind == {i \in 1..(pos + 1) : w.set[i] \notin Range(w1.set)}
       IN ExitAllLoop(w1, pos + 1 - Cardinality(behind), Append(seen, w.set))

\* exitAllTerminals, with a variant that stops after the first Session
ExitAllTerminalsFirstOnly(w) ==
  IF w.set = <<>> THEN [w |-> w, seen |-> <<w.set>>]
  ELSE [w |-> ExitTerminal(w, w.set[1]), seen |-> <<w.set>>]

ExitAllTerminals(w) == ExitAllLoop(w, 0, <<>>)

\* deserializeTerminalModel (serializedModel), with a variant that ignores
\* the allowRelaunchingTerminalsOnStartup option
DeserializeAlways(w, uri, allow) ==
  [w |-> Register(w, NextId(w), uri), item |-> NextId(w)]

DeserializeTerminalModel(w, uri, allow) ==
  IF allow THEN [w |-> Register(w, NextId(w), uri), item |-> NextId(w)]
  ELSE [w |-> w, item |-> None]

\* the choice of runCommands' terminal, with a variant that takes the
\* active Session whatever terminal.runInActive says
RunTargetIgnoringConfig(w, runInActive) == GetActiveTerminal(w)

\* let terminal; if (atom.config.get('terminal.runInActive')) terminal =
\* this.getActiveTerminal()
RunTarget(w, runInActive) ==
  IF runInActive THEN GetActiveTerminal(w) ELSE None

\* async open (uri, options) { return atom.workspace.open(uri, options) }:
\* the result the caller gets is the workspace's, resolved with the item
\* or rejected with the failure of its creation
OpenResult(created) == IF created THEN "resolved" ELSE "rejected"

\* runCommands when the open it awaits rejects, with a variant that
\* catches the failure and goes on in the first Session of the registry
OpenRejectedFallsBack(w, k) ==
  IF w.set = <<>> THEN [w EXCEPT !.calls[k].pc = "rejected"]
  ELSE AwaitInitialized(w, k, w.set[1])

\* terminal = await this.open(...) throws the rejection: it leaves the
\* async function, whose promise rejects, and the loop is not reached
OpenRejected(w, k) == [w EXCEPT !.calls[k].pc = "rejected"]

(* ------------------------------ state -------------------------------- *)
Init ==
  /\ terminalsSet = <<>>
  /\ terminals = [s \in {} |-> None]
  /\ items = [c \in ContainerSet |-> {}]
  /\ activeItem = [c \in ContainerSet |-> None]
  /\ visible = [d \in Docks |-> FALSE]
  /\ focus = None
  /\ clipboard = "clip0"
  /\ opening = <<>>
  /\ calls = <<>>
  /\ nextUuid = 0
  /\ disposed = FALSE
  /\ lastOp = [op |-> "init"]

Commit(w) ==
  /\ terminals' = w.ts
  /\ terminalsSet' = w.set
  /\ items' = w.items
  /\ activeItem' = w.act
  /\ visible' = w.vis
  /\ focus' = w.focus
  /\ calls' = w.calls

CanCreate == Cardinality(DOMAIN terminals) < MaxSessions

\* what getActivePane() may return for the four containers
PaneSets == SUBSET ContainerSet

\* the placements addDefaultPosition() yields for a configured position
DefaultPlacements(position) ==
  {AddDefaultPosition(position, EmptyOptions, panes) : panes \in PaneSets}

\* options a caller of the service's open passes: each of the keys
\* 'pane' and 'split' absent or set
CallerOptions ==
  [pane : {Absent, "left", "center"}, split : {Absent, "down", "up"}]

\* Sessions whose isActive flag is set
ActiveSessions == {s \in Range(terminalsSet) : terminals[s].active}

\* async open (uri, options): atom.workspace.open(uri, options).  The
\* workspace runs the opener at once and displays the item later; k is the
\* runCommands call that awaits the result, 0 for none.
Open(w, uri, options, k) ==
  LET r == Opener(w, uri)
  IN /\ Commit(r.w)
     /\ opening' = IF r.item = None THEN opening
                   ELSE Append(opening, [item |-> r.item, options |-> options,
                                         call |-> k])

\* 'terminal:open'
CmdOpen(options) ==
  /\ ~disposed /\ CanCreate
  /\ Open(World, GenerateNewUri(nextUuid + 1), options, 0)
  /\ nextUuid' = nextUuid + 1
  /\ lastOp' = [op |-> "event"]
  /\ UNCHANGED <<clipboard, disposed>>

\* 'terminal:open-up', '-down', '-left', '-right'
CmdOpenSplit(dir) ==
  /\ ~disposed /\ CanCreate
  /\ Open(World, GenerateNewUri(nextUuid + 1),
          [pane |-> Absent, split |-> dir], 0)
  /\ nextUuid' = nextUuid + 1
  /\ lastOp' = [op |-> "event"]
  /\ UNCHANGED <<clipboard, disposed>>

\* openInCenterOrDock (centerOrDock, options = {}): 'terminal:open-center',
\* '-bottom-dock', '-left-dock', '-right-dock'
CmdOpenInCenterOrDock(c, hasPane) ==
  /\ ~disposed /\ CanCreate
  /\ Open(World, GenerateNewUri(nextUuid + 1),
          IF hasPane THEN [EmptyOptions EXCEPT !.pane = c] ELSE EmptyOptions,
          0)
  /\ nextUuid' = nextUuid + 1
  /\ lastOp' = [op |-> "event"]
  /\ UNCHANGED <<clipboard, disposed>>

\* async openTerminal (options = {}): the service's open
OpenTerminal(options, position, panes) ==
  /\ ~disposed /\ CanCreate
  /\ Open(World, GenerateNewUri(nextUuid + 1),
          AddDefaultPosition(position, options, panes), 0)
  /\ nextUuid' = nextUuid + 1
  /\ lastOp' = [op |-> "openTerminal", position |-> position,
                options |-> options, panes |-> panes,
                placed |-> AddDefaultPosition(position, options, panes)]
  /\ UNCHANGED <<clipboard, disposed>>

\* another package opens an address: atom.workspace.open(uri) reaches the
\* opener
OpenByUri(uri) ==
  /\ ~disposed /\ CanCreate
  /\ Open(World, uri, EmptyOptions, 0)
  /\ lastOp' = [op |-> "openByUri", uri |-> uri,
                item |-> Opener(World, uri).item]
  /\ UNCHANGED <<clipboard, disposed, nextUuid>>

\* deserializeTerminalModel, called by the workspace on restore; the
\* workspace then puts the item back in its container c
Deserialize(uri, allow, c) ==
  /\ ~disposed /\ CanCreate
  /\ LET r == DeserializeTerminalModel(World, uri, allow)
     IN /\ Commit(r.w)
        /\ opening' = IF r.item = None THEN opening
                      ELSE Append(opening,
                                  [item |-> r.item,
                                   options |-> [EmptyOptions EXCEPT !.pane = c],
                                   call |-> 0])
        /\ lastOp' = [op |-> "deserialize", uri |-> uri, allow |-> allow,
                      item |-> r.item]
  /\ UNCHANGED <<clipboard, disposed, nextUuid>>

\* the workspace displays an opened item: the item is added to its pane
\* (a new pane for a split), becomes the pane's active item and its dock
\* is shown; the promise of open resolves and an awaiting runCommands goes
\* on.  An item that exited meanwhile is not displayed.
DisplayItem(i) ==
  /\ ~disposed
  /\ i \in 1..Len(opening)
  /\ LET o == opening[i]
         c == IF o.options.pane # Absent THEN o.options.pane ELSE "center"
         w0 == World
         w1 == IF o.options.split # Absent THEN ObservePanesCb(w0) ELSE w0
         w2 == ObserveItemsCb([w1 EXCEPT !.items[c] = @ \cup {o.item}],
                              c, o.item)
         w3 == ObserveActivePaneItemCb([w2 EXCEPT !.act[c] = o.item], o.item)
         w4 == IF c \in Docks /\ ~w3.vis[c]
               THEN ObserveVisibleCb([w3 EXCEPT !.vis[c] = TRUE], c, TRUE)
               ELSE w3
         shown == IF o.item \in Registered(w0) THEN w4 ELSE w0
         w5 == IF o.call # 0 THEN AwaitInitialized(shown, o.call, o.item)
               ELSE shown
     IN /\ Commit(w5)
        /\ opening' = SubSeq(opening, 1, i - 1)
                      \o SubSeq(opening, i + 1, Len(opening))
        /\ lastOp' = [op |-> "event"]
  /\ UNCHANGED <<clipboard, disposed, nextUuid>>

\* async runCommands (commands), up to its first suspension.  With a
\* terminal at hand it goes on to the await of initializedPromise; else it
\* opens one with the default placement and awaits open.
RunCommands(commands, runInActive, position, options) ==
  /\ ~disposed
  /\ Len(calls) < MaxCalls
  /\ LET k == Len(calls) + 1
         terminal == RunTarget(World, runInActive)
         call == [pc |-> "awaitOpen", target |-> None, cmds |-> commands,
                  opened |-> None, waited |-> FALSE]
         w0 == [World EXCEPT !.calls = Append(@, call)]
         r == Opener(w0, GenerateNewUri(nextUuid + 1))
     IN /\ terminal = None => CanCreate
        /\ IF terminal # None
           THEN /\ Commit(AwaitInitialized(w0, k, terminal))
                /\ UNCHANGED <<opening, nextUuid>>
           ELSE /\ Commit([r.w EXCEPT !.calls[k].opened = r.item])
                /\ opening' = Append(opening, [item |-> r.item,
                                               options |-> options,
                                               call |-> k])
                /\ nextUuid' = nextUuid + 1
        /\ lastOp' = [op |-> "runCommands", runInActive |-> runInActive,
                      position |-> position]
  /\ UNCHANGED <<clipboard, disposed>>

\* the process collaborator signals readiness: Starting -> Ready,
\* initializedPromise resolves and its reactions run
ProcessReady(s) ==
  /\ ~disposed
  /\ s \in DOMAIN terminals
  /\ terminals[s].processState = "Starting"
  /\ Commit(ResolveWaiters([World EXCEPT !.ts[s].processState = "Ready",
                                         !.ts[s].initialized = TRUE,
                                         !.ts[s].waiters = <<>>],
                           terminals[s].waiters))
  /\ lastOp' = [op |-> "ready"]
  /\ UNCHANGED <<clipboard, opening, nextUuid, disposed>>

\* the process collaborator reports the process's exit
ProcessExit(s) ==
  /\ ~disposed
  /\ s \in DOMAIN terminals
  /\ terminals[s].processState # "Exited"
  /\ Commit(ExitTerminal(World, s))
  /\ lastOp' = [op |-> "processExit"]
  /\ UNCHANGED <<clipboard, opening, nextUuid, disposed>>

\* 'terminal:close'
Close ==
  /\ ~disposed
  /\ Commit(CloseOp(World))
  /\ lastOp' = [op |-> "close", active |-> ActiveSessions # {}]
  /\ UNCHANGED <<clipboard, opening, nextUuid, disposed>>

\* 'terminal:restart'
Restart ==
  /\ ~disposed
  /\ \A s \in Range(terminalsSet) : terminals[s].restarts < MaxRestarts
  /\ Commit(RestartOp(World))
  /\ lastOp' = [op |-> "restart", active |-> ActiveSessions # {}]
  /\ UNCHANGED <<clipboard, opening, nextUuid, disposed>>

\* 'terminal:copy'
Copy ==
  /\ ~disposed
  /\ clipboard' = CopyOp(World, clipboard)
  /\ lastOp' = [op |-> "copy", active |-> ActiveSessions # {}]
  /\ UNCHANGED <<terminalsSet, terminals, items, activeItem, visible, focus,
                 opening, calls, nextUuid, disposed>>

\* 'terminal:paste'
Paste ==
  /\ ~disposed
  /\ Commit(PasteOp(World, clipboard))
  /\ lastOp' = [op |-> "paste", active |-> ActiveSessions # {}]
  /\ UNCHANGED <<clipboard, opening, nextUuid, disposed>>

\* 'terminal:unfocus'
Unfocus ==
  /\ ~disposed
  /\ Commit(UnfocusOp(World))
  /\ lastOp' = [op |-> "unfocus"]
  /\ UNCHANGED <<clipboard, opening, nextUuid, disposed>>

\* 'terminal:close-all'
ExitAll ==
  /\ ~disposed
  /\ LET r == ExitAllTerminals(World)
     IN /\ Commit(r.w)
        /\ lastOp' = [op |-> "exitAll", before |-> terminalsSet,
                      seen |-> r.seen]
  /\ UNCHANGED <<clipboard, opening, nextUuid, disposed>>

\* destroy (): this.exitAllTerminals(); this.disposables.dispose()
Destroy ==
  /\ ~disposed
  /\ LET r == ExitAllTerminals(World)
     IN /\ Commit(r.w)
        /\ lastOp' = [op |-> "exitAll", before |-> terminalsSet,
                      seen |-> r.seen]
  /\ disposed' = TRUE
  /\ UNCHANGED <<clipboard, opening, nextUuid>>

\* the uuids a run may draw: one per Session and one per failed creation
CanDraw == nextUuid < MaxSessions + MaxCalls

\* openTerminal (the service's open) or 'terminal:open' when the Session
\* cannot be created (spec 4.3, 7: the process collaborator fails): no
\* TerminalModel comes to exist and the promise of open rejects
OpenTerminalFails ==
  /\ ~disposed /\ CanDraw
  /\ nextUuid' = nextUuid + 1
  /\ lastOp' = [op |-> "openFailed", call |-> 0,
                result |-> OpenResult(FALSE)]
  /\ UNCHANGED <<terminalsSet, terminals, items, activeItem, visible, focus,
                 clipboard, opening, calls, disposed>>

\* runCommands when it has to open a Session and the Session cannot be
\* created
RunCommandsOpenFails(commands, runInActive) ==
  /\ ~disposed /\ CanDraw
  /\ Len(calls) < MaxCalls
  /\ RunTarget(World, runInActive) = None
  /\ LET k == Len(calls) + 1
         call == [pc |-> "awaitOpen", target |-> None, cmds |-> commands,
                  opened |-> None, waited |-> FALSE]
     IN /\ Commit(OpenRejected([World EXCEPT !.calls = Append(@, call)], k))
        /\ lastOp' = [op |-> "openFailed", call |-> k,
                      result |-> OpenResult(FALSE)]
  /\ nextUuid' = nextUuid + 1
  /\ UNCHANGED <<clipboard, opening, disposed>>

\* the workspace creates an empty pane: observePanes' callback
NewPane ==
  /\ ~disposed
  /\ Commit(ObservePanesCb(World))
  /\ lastOp' = [op |-> "newPane"]
  /\ UNCHANGED <<clipboard, opening, nextUuid, disposed>>

\* a container's active item changes: observeActivePaneItem's callback
ActivateItem(c, item) ==
  /\ ~disposed
  /\ item \in items[c] \cup {Editor, None}
  /\ item # activeItem[c]
  /\ Commit(ObserveActivePaneItemCb([World EXCEPT !.act[c] = item], item))
  /\ lastOp' = [op |-> "event"]
  /\ UNCHANGED <<clipboard, opening, nextUuid, disposed>>

\* a dock is shown or hidden: observeVisible's callback
DockVisibility(d, v) ==
  /\ ~disposed
  /\ v # visible[d]
  /\ Commit(ObserveVisibleCb([World EXCEPT !.vis[d] = v], d, v))
  /\ lastOp' = [op |-> "visible", v |-> v, item |-> activeItem[d],
                calls |-> ObserveVisibleCalls([World EXCEPT !.vis[d] = v],
                                              d, v)]
  /\ UNCHANGED <<clipboard, opening, nextUuid, disposed>>

\* the workspace takes item s out of container c without destroying it
\* (a move's first half, pane.removeItem).  The constructor subscribes to
\* observePanes/observeItems (items added), observeActivePaneItem and the
\* docks' observeVisible, and to nothing for removals: no callback runs
\* for the removal itself.  If s was the container's active item, next
\* takes its place; observeActivePaneItem is called with it when the
\* container's pane is the workspace's active pane, which it is when s
\* holds the input focus.
ItemRemoved(c, s, next) ==
  /\ ~disposed
  /\ s \in items[c] /\ s \in Range(terminalsSet)
  /\ next \in (items[c] \ {s}) \cup {None}
  /\ LET w1 == [World EXCEPT !.items[c] = @ \ {s},
                             !.act[c] = IF @ = s THEN next ELSE @,
                             !.focus = IF @ = s THEN None ELSE @]
     IN Commit(IF activeItem[c] = s /\ focus = s
               THEN ObserveActivePaneItemCb(w1, next) ELSE w1)
  /\ lastOp' = [op |-> "itemRemoved", item |-> s,
                state |-> terminals[s].processState]
  /\ UNCHANGED <<clipboard, opening, nextUuid, disposed>>

\* the workspace adds a Session that is displayed nowhere to container c
\* (a move's second half): observeItems' callback; a pane without an
\* active item makes the added item its active item
ItemAdded(c, s) ==
  /\ ~disposed
  /\ s \in Range(terminalsSet)
  /\ \A d \in ContainerSet : s \notin items[d]
  /\ \A i \in 1..Len(opening) : opening[i].item # s
  /\ LET w1 == ObserveItemsCb([World EXCEPT !.items[c] = @ \cup {s}], c, s)
     IN Commit(IF activeItem[c] = None
               THEN ObserveActivePaneItemCb([w1 EXCEPT !.act[c] = s], s)
               ELSE w1)
  /\ lastOp' = [op |-> "event"]
  /\ UNCHANGED <<clipboard, opening, nextUuid, disposed>>

(* --------------------------- specifications -------------------------- *)
WorkspaceItems == DOMAIN terminals \cup {Editor, None}

\* Registry and focus coordination: Sessions are opened, displayed and
\* exited while every container's visibility and active item change.
Next ==
  \/ \E c \in ContainerSet, hasPane \in BOOLEAN : CmdOpenInCenterOrDock(c, hasPane)
  \/ \E i \in 1..MaxSessions : DisplayItem(i)
  \/ \E s \in DOMAIN terminals : ProcessExit(s)
  \/ Close
  \/ NewPane
  \/ \E c \in ContainerSet, item \in WorkspaceItems : ActivateItem(c, item)
  \/ \E d \in Docks, v \in BOOLEAN : DockVisibility(d, v)

Spec == Init /\ [][Next]_vars

\* runCommands: calls, the opening and display of their Sessions, process
\* notifications and close, with the center's active item changing.
RunPositions == {"Center", "Split Down", "Bottom Dock", "Other"}

NextRun ==
  \/ \E commands \in CommandLists, runInActive \in BOOLEAN,
        position \in RunPositions :
       \E options \in DefaultPlacements(position) :
         RunCommands(commands, runInActive, position, options)
  \/ CmdOpenInCenterOrDock("center", TRUE)
  \/ \E i \in 1..MaxSessions : DisplayItem(i)
  \/ \E s \in DOMAIN terminals : ProcessReady(s)
  \/ \E s \in DOMAIN terminals : ProcessExit(s)
  \/ Close
  \/ ExitAll
  \/ Destroy
  \/ \E item \in WorkspaceItems : ActivateItem("center", item)

SpecRun == Init /\ [][NextRun]_vars

\* The commands on the active Session, and the addresses: open by address,
\* restore, close, restart, copy, paste, unfocus.
NextRouter ==
  \/ CmdOpenInCenterOrDock("center", TRUE)
  \/ \E uri \in ExternalUris : OpenByUri(uri)
  \/ \E uri \in ExternalUris, allow \in BOOLEAN : Deserialize(uri, allow, "center")
  \/ \E i \in 1..MaxSessions : DisplayItem(i)
  \/ Close
  \/ Restart
  \/ Copy
  \/ Paste
  \/ Unfocus
  \/ \E item \in WorkspaceItems : ActivateItem("center", item)

SpecRouter == Init /\ [][NextRouter]_vars

\* Failing creation: opens and runCommands calls whose Session cannot be
\* created, among calls and opens that succeed.
NextFail ==
  \/ \E commands \in CommandLists, runInActive \in BOOLEAN :
       RunCommands(commands, runInActive, "Center",
                   [EmptyOptions EXCEPT !.pane = "center"])
  \/ \E commands \in CommandLists, runInActive \in BOOLEAN :
       RunCommandsOpenFails(commands, runInActive)
  \/ OpenTerminalFails
  \/ \E i \in 1..MaxSessions : DisplayItem(i)
  \/ \E s \in DOMAIN terminals : ProcessReady(s)

SpecFail == Init /\ [][NextFail]_vars

\* Container tracking: Sessions are displayed in the center and the left
\* dock, taken out of their container and added to one again.
TrackedContainers == {"center", "left"}

NextTracker ==
  \/ \E c \in TrackedContainers : CmdOpenInCenterOrDock(c, TRUE)
  \/ \E i \in 1..MaxSessions : DisplayItem(i)
  \/ \E c \in TrackedContainers, s \in DOMAIN terminals,
        next \in WorkspaceItems : ItemRemoved(c, s, next)
  \/ \E c \in TrackedContainers, s \in DOMAIN terminals : ItemAdded(c, s)
  \/ \E c \in TrackedContainers, item \in WorkspaceItems :
       ActivateItem(c, item)
  \/ \E v \in BOOLEAN : DockVisibility("left", v)

SpecTracker == Init /\ [][NextTracker]_vars

\* Placement: the service's open with every configured position, caller
\* option set and set of active panes, and the open commands.
SplitDirections == {"up", "down", "left", "right"}

\* sets of containers with an active pane: each container in two of them
\* and out of two
OpenPaneSets == {{}, {"center", "bottom"}, {"left", "right"}, ContainerSet}

NextOpen ==
  \/ \E options \in CallerOptions, position \in Positions,
        panes \in OpenPaneSets : OpenTerminal(options, position, panes)
  \/ \E position \in Positions :
       \E options \in DefaultPlacements(position) : CmdOpen(options)
  \/ \E dir \in SplitDirections : CmdOpenSplit(dir)
  \/ \E i \in 1..MaxSessions : DisplayItem(i)

SpecOpen == Init /\ [][NextOpen]_vars

\* Session life cycle: open, display, readiness, close, restart and
\* process exit.
NextLife ==
  \/ CmdOpenInCenterOrDock("center", TRUE)
  \/ \E i \in 1..MaxSessions : DisplayItem(i)
  \/ \E s \in DOMAIN terminals : ProcessReady(s)
  \/ \E s \in DOMAIN terminals : ProcessExit(s)
  \/ Close
  \/ Restart
  \/ \E item \in WorkspaceItems : ActivateItem("center", item)

SpecLife == Init /\ [][NextLife]_vars

\* Addresses: opens by address with strings around the scheme prefix and
\* opens with generated addresses.
NextAddress ==
  \/ \E uri \in ProbeUris : OpenByUri(uri)
  \/ \E c \in TrackedContainers : CmdOpenInCenterOrDock(c, TRUE)
  \/ \E i \in 1..MaxSessions : DisplayItem(i)

SpecAddress == Init /\ [][NextAddress]_vars

(* ------------------------------ claims ------------------------------- *)
\* containers, by priority index, that are visible and whose active item
\* is a registered Session
SessionHosts ==
  {i \in 1..Len(Containers) :
     /\ IsVisible(visible, Containers[i])
     /\ activeItem[Containers[i]] \in Range(terminalsSet)}

First(S) == CHOOSE i \in S : \A j \in S : i <= j

\* a visible container of higher priority than every Session host has an
\* active item that is not a Session
OutrankedByOther ==
  \E i \in 1..Len(Containers) :
    /\ \A j \in SessionHosts : i < j
    /\ IsVisible(visible, Containers[i])
    /\ activeItem[Containers[i]] # None

\* C1: at most one Session of the registry has isActive set, in every
\* state any sequence of opens, exits and container signals reaches.
C1_AtMostOneActive == Cardinality(ActiveSessions) <= 1

\* two registered Sessions, each the active item of a visible container,
\* one of them active
C1_Witness ==
  /\ Len(terminalsSet) = 2
  /\ Cardinality(SessionHosts) = 2
  /\ Cardinality(ActiveSessions) = 1

WithFlags(w, A) ==
  [w EXCEPT !.ts = [s \in DOMAIN w.ts |-> [w.ts[s] EXCEPT !.active = s \in A]]]

\* C9: recomputeActive run twice on unchanged inputs gives the same flags
\* both times, whatever flags it started from, and changes nothing but the
\* flags.
C9_RecomputeIdempotent ==
  \A A \in SUBSET DOMAIN terminals :
    LET w0 == WithFlags(World, A)
        w1 == RecalculateActive(w0)
        w2 == RecalculateActive(w1)
    IN /\ w2 = w1
       /\ WithFlags(w1, {}) = WithFlags(w0, {})

\* a recomputation with no other change has just run (observePanes for an
\* empty pane) while a Session is active
C9_Witness ==
  /\ lastOp.op = "newPane"
  /\ ActiveSessions # {}
  /\ Len(terminalsSet) = 2

\* the commands call k has submitted to Session s, in submission order
SubmittedBy(k, s) ==
  LET sel == SelectSeq(terminals[s].input, LAMBDA e : e.call = k)
  IN [i \in 1..Len(sel) |-> sel[i].cmd]

\* C3: no command reaches a Session before its readiness signal; a call
\* whose Session is ready has submitted its whole list, once and in list
\* order, to that Session and nothing anywhere else, and a call that is
\* not through has submitted nothing.
C3_SubmitAfterReady ==
  /\ \A s \in DOMAIN terminals :
       /\ terminals[s].input # <<>> => terminals[s].initialized
       /\ \A i \in 1..Len(terminals[s].input) :
            terminals[s].input[i].st # "Starting"
  /\ \A k \in 1..Len(calls) :
       /\ \A s \in DOMAIN terminals :
            SubmittedBy(k, s) =
              IF calls[k].pc = "done" /\ s = calls[k].target
              THEN calls[k].cmds ELSE <<>>
       /\ (calls[k].target # None /\ terminals[calls[k].target].initialized)
            => calls[k].pc = "done"

\* a call on a freshly opened Session was suspended, the readiness signal
\* has just arrived and the call's full list is in the Session's input
C3_Witness ==
  /\ lastOp.op = "ready"
  /\ \E k \in 1..Len(calls) :
       /\ calls[k].waited /\ calls[k].pc = "done"
       /\ calls[k].opened = calls[k].target
       /\ Len(calls[k].cmds) = MaxCmds
       /\ SubmittedBy(k, calls[k].target) = calls[k].cmds

\* C4: when the Session a call is suspended on exits, the call is
\* abandoned in that very step, and no command is ever submitted to a
\* Session that has exited.
C4_AbandonOnExit ==
  /\ [][\A k \in 1..Len(calls) :
          (/\ calls[k].pc = "awaitInit"
           /\ terminals[calls[k].target].processState # "Exited"
           /\ terminals'[calls[k].target].processState = "Exited")
          => calls'[k].pc = "abandoned"]_vars
  /\ [](\A s \in DOMAIN terminals : \A i \in 1..Len(terminals[s].input) :
          terminals[s].input[i].st # "Exited")

\* C5: no call is suspended on the readiness of a Session that has exited
\* (an Exited Session never signals Ready, so such a call never completes).
C5_NoCallWaitsOnExited ==
  \A k \in 1..Len(calls) :
    calls[k].pc = "awaitInit" =>
      terminals[calls[k].target].processState # "Exited"

C7_Restore ==
  [][lastOp'.op = "deserialize" =>
       IF lastOp'.allow
       THEN /\ lastOp'.item \notin DOMAIN terminals
            /\ DOMAIN terminals' = DOMAIN terminals \cup {lastOp'.item}
            /\ terminalsSet' = Append(terminalsSet, lastOp'.item)
            /\ terminals'[lastOp'.item].uri = lastOp'.uri
       ELSE /\ lastOp'.item = None
            /\ terminalsSet' = terminalsSet
            /\ terminals' = terminals]_vars

\* a restore with the policy enabled has just added a second Session
C7_Witness ==
  /\ lastOp.op = "deserialize"
  /\ lastOp.allow
  /\ Len(terminalsSet) = 2
  /\ terminals[lastOp.item].uri = lastOp.uri

\* C8: with no active Session, close, restart, copy and paste change
\* neither the registry nor any Session nor the clipboard.
C8_NoActiveNoOp ==
  [][(lastOp'.op \in {"close", "restart", "copy", "paste"}
      /\ ActiveSessions = {})
     => /\ terminalsSet' = terminalsSet
        /\ terminals' = terminals
        /\ clipboard' = clipboard]_vars

\* one of the four commands has just run with Sessions registered and
\* none of them active
C8_Witness ==
  /\ lastOp.op = "paste"
  /\ ~lastOp.active
  /\ Len(terminalsSet) = 2
  /\ clipboard # "clip0"

\* C10: a call runs in the active Session exactly when runInActive is set
\* and a Session is active, and then opens nothing; otherwise it opens
\* exactly one new Session, with a default placement, and that Session
\* becomes its target.
C10_RunTarget ==
  [][/\ lastOp'.op = "runCommands" =>
          LET k == Len(calls')
              c == calls'[k]
          IN /\ k = Len(calls) + 1
             /\ IF lastOp'.runInActive /\ ActiveSessions # {}
                THEN /\ c.target \in ActiveSessions
                     /\ c.opened = None
                     /\ DOMAIN terminals' = DOMAIN terminals
                     /\ opening' = opening
                ELSE /\ c.opened \notin DOMAIN terminals
                     /\ DOMAIN terminals' = DOMAIN terminals \cup {c.opened}
                     /\ terminalsSet' = Append(terminalsSet, c.opened)
                     /\ c.target = None
                     /\ \E o \in DefaultPlacements(lastOp'.position) :
                          opening' = Append(opening, [item |-> c.opened,
                                                      options |-> o,
                                                      call |-> k])
     /\ \A k \in 1..Len(calls') :
          calls'[k].opened # None =>
            calls'[k].target \in {None, calls'[k].opened}]_vars

\* one call opened its Session and a later one ran in the active Session
C10_Witness ==
  /\ lastOp.op = "runCommands"
  /\ lastOp.runInActive
  /\ Len(calls) = 2
  /\ calls[1].opened # None /\ calls[1].target = calls[1].opened
  /\ calls[2].opened = None /\ calls[2].target # None

\* the item that decides recomputeActive: the active item of the
\* highest-priority visible container that has one, None without one
Decider == Winner(World, Containers)

CallsOf(cs, f) == {i \in 1..Len(cs) : cs[i].f = f}

\* C16: a dock's visibility signal routes input focus to the dock's
\* active item once, before the recomputation, when the dock became
\* visible and that item is a Session, and to no Session otherwise; the
\* recomputation runs exactly once either way.
C16_FocusOnceThenRecompute ==
  [][lastOp'.op = "visible" =>
       LET cs == lastOp'.calls
           F == CallsOf(cs, "focusOnTerminal")
           R == CallsOf(cs, "recalculateActive")
       IN /\ Cardinality(R) = 1
          /\ F \cup R = 1..Len(cs)
          /\ IF lastOp'.v /\ lastOp'.item \in DOMAIN terminals
             THEN /\ Cardinality(F) = 1
                  /\ \A i \in F : /\ cs[i].on = lastOp'.item
                                  /\ \A j \in R : i < j
                  /\ focus' = lastOp'.item
             ELSE /\ F = {}
                  /\ focus' = focus]_vars

\* a dock whose active item is a Session has just been shown, with two
\* Sessions registered, and the focus went to the dock's Session
C16_Witness ==
  /\ lastOp.op = "visible"
  /\ lastOp.v
  /\ lastOp.item \in Range(terminalsSet)
  /\ focus = lastOp.item
  /\ Len(lastOp.calls) = 2
  /\ Len(terminalsSet) = 2

\* C12: no two Sessions of the registry have the same address, whatever
\* sequence of opens with generated addresses, opens by address through
\* the opener and restores led to the state.
C12_UniqueAddresses ==
  \A s, t \in Range(terminalsSet) :
    s # t => terminals[s].uri # terminals[t].uri

DisplayedIn(s) == {c \in ContainerSet : s \in items[c]}

\* C15: once the removal of a Session's item from its container has been
\* processed the Session is still registered with the process state it
\* had, and, being displayed in no container, it is not active.
C15_RemovedStaysButNotActive ==
  lastOp.op = "itemRemoved" =>
    /\ lastOp.item \in Range(terminalsSet)
    /\ terminals[lastOp.item].processState = lastOp.state
    /\ DisplayedIn(lastOp.item) = {} => ~terminals[lastOp.item].active

\* the container whose active pane a position names, and the split
\* direction a position names
PaneOfPosition ==
  ("Center" :> "center") @@ ("Bottom Dock" :> "bottom")
  @@ ("Left Dock" :> "left") @@ ("Right Dock" :> "right")

SplitOfPosition ==
  ("Split Up" :> "up") @@ ("Split Down" :> "down")
  @@ ("Split Left" :> "left") @@ ("Split Right" :> "right")

\* C17: the placement openTerminal opens with keeps every key the caller
\* set; the configured position adds at most one key, and only an absent
\* one: 'pane', the container's active pane, for Center and the docks when
\* there is such a pane, 'split' with its direction for a Split position,
\* nothing for any other position.
C17_PlacementMerge ==
  lastOp.op = "openTerminal" =>
    LET o == lastOp.options
        r == lastOp.placed
        p == lastOp.position
        added == {k \in {"pane", "split"} : o[k] = Absent /\ r[k] # Absent}
    IN /\ \A k \in {"pane", "split"} : o[k] # Absent => r[k] = o[k]
       /\ Cardinality(added) <= 1
       /\ p \in DOMAIN PaneOfPosition =>
            /\ r.split = o.split
            /\ r.pane = IF o.pane = Absent /\ PaneOfPosition[p] \in lastOp.panes
                        THEN PaneOfPosition[p] ELSE o.pane
       /\ p \in DOMAIN SplitOfPosition =>
            /\ r.pane = o.pane
            /\ r.split = IF o.split = Absent THEN SplitOfPosition[p]
                         ELSE o.split
       /\ p \notin DOMAIN PaneOfPosition \cup DOMAIN SplitOfPosition => r = o
       /\ opening # <<>> /\ opening[Len(opening)].options = r

\* openTerminal has just run with the position Left Dock, whose pane
\* exists, for a caller that set 'pane' itself, and the caller's pane stayed
C17_Witness ==
  /\ lastOp.op = "openTerminal"
  /\ lastOp.position = "Left Dock"
  /\ "left" \in lastOp.panes
  /\ lastOp.options.pane = "center"
  /\ lastOp.placed.pane = "center"
  /\ Len(terminalsSet) = 2

\* the change of Session s's process state in a step, as <<from, to>>
StateChange(s) ==
  <<terminals[s].processState, terminals'[s].processState>>

Terminations == {"close", "processExit"}

HasGeneratedForm(uri) ==
  /\ Len(uri) = Len(TERMINAL_BASE_URI) + 2
  /\ SubSeq(uri, 1, Len(TERMINAL_BASE_URI)) = TERMINAL_BASE_URI
  /\ uri[Len(uri)] = "/"
  /\ uri[Len(uri) - 1] \notin {"/", "terminal:"}

\* C19: the opener makes a Session for an address exactly when the
\* address begins with 'terminal://', a new, registered Session with that
\* address, and otherwise makes nothing; every generated address is the
\* prefix, a token and '/', and a Session was made for it.
C19_OpenerIffPrefix ==
  /\ [][lastOp'.op = "openByUri" =>
          IF /\ Len(lastOp'.uri) >= 3
             /\ lastOp'.uri[1] = "terminal:"
             /\ lastOp'.uri[2] = "/" /\ lastOp'.uri[3] = "/"
          THEN /\ lastOp'.item \notin DOMAIN terminals
               /\ terminalsSet' = Append(terminalsSet, lastOp'.item)
               /\ terminals'[lastOp'.item].uri = lastOp'.uri
          ELSE /\ lastOp'.item = None
               /\ terminalsSet' = terminalsSet
               /\ terminals' = terminals
               /\ opening' = opening]_vars
  /\ [](\A n \in 1..nextUuid :
          /\ HasGeneratedForm(GenerateNewUri(n))
          /\ \E s \in DOMAIN terminals : terminals[s].uri = GenerateNewUri(n))

\* a string that holds the prefix, but not at its start, has just been
\* refused while a Session with a generated address is registered
C19_Witness ==
  /\ lastOp.op = "openByUri"
  /\ lastOp.item = None
  /\ \E i \in 1..Len(lastOp.uri) : lastOp.uri[i] = "terminal:"
  /\ nextUuid = 1
  /\ Len(terminalsSet) = 1

\* C20: in every Session's input the commands of one call form one
\* contiguous block, in the order of the call's list, also when two calls
\* were suspended on the same Session.
C20_ContiguousBlocks ==
  \A s \in DOMAIN terminals :
    LET in == terminals[s].input
    IN /\ \A i, j \in 1..Len(in) :
            (i < j /\ in[i].call = in[j].call) =>
              \A m \in i..j : in[m].call = in[i].call
       /\ \A k \in 1..Len(calls) :
            SubmittedBy(k, s) \in {<<>>, calls[k].cmds}

\* two calls with full lists, both taken by the active Session while it
\* was starting and both suspended on it, have been resumed by its
\* readiness signal
C20_Witness ==
  /\ lastOp.op = "ready"
  /\ Len(calls) = 2
  /\ \A k \in 1..2 : /\ calls[k].waited
                     /\ calls[k].opened = None
                     /\ calls[k].pc = "done"
                     /\ Len(calls[k].cmds) = MaxCmds
  /\ calls[1].target = calls[2].target
  /\ Len(terminals[calls[1].target].input) = 2 * MaxCmds

====
